---------------------------- MODULE Spec2Model ----------------------------
(***************************************************************************)
(* A model of zerox(), the pipeline orchestrator of py_zerox               *)
(* (src/py_zerox/zerox/core/zerox.py): one call of zerox() is a walk       *)
(* through the positions of its body, split at its awaits.  Calls follow   *)
(* one another and share the file system: the working temporary directory  *)
(* <temp_dir>/zerox-temp and the output directory.                         *)
(*                                                                         *)
(* download_file, convert_pdf_to_images, process_page and                  *)
(* process_pages_in_batches live in ..processor, which is not among the    *)
(* sources; they are modelled from their contracts in the specification    *)
(* (sections 4.2, 4.3, 4.4 and 7) and from the way zerox() calls them.     *)
(***************************************************************************)
EXTENDS Integers, Sequences, FiniteSets

VARIABLES
    pc,                   \* position of the current call in zerox()
    args,                 \* the arguments of the current call
    tempExists,           \* <temp_dir>/zerox-temp exists on disk
    tempFiles,            \* the files in the working temporary directory
    outExists,            \* the output directory exists on disk
    written,              \* text this call wrote to <output_dir>/<file_name>.md
    local_path,           \* zerox local: what download_file returned
    images,               \* zerox local: the list of page images
    input_token_count,    \* zerox local
    output_token_count,   \* zerox local
    prior_page,           \* zerox local
    aggregated_markdown,  \* zerox local
    idx,                  \* maintain-format loop: 1-based index of the next image
    awaiting,             \* maintain-format loop: a process_page call is in flight
    batchLo,              \* batch scheduler: index of the first image of the batch
    inflight,             \* batch scheduler: indexes of the unsettled tasks
    results,              \* batch scheduler: index -> settled process_page result
    output,               \* the ZeroxOutput returned
    error,                \* the exception the call raised, "none" if none
    started,              \* history: process_page calls, in the order they began
    finished,             \* history: image index -> the process_page call that ended
    produced,             \* history: the files this call's rasterization wrote
    reachedTemp           \* history: this call went past the makedirs of line 74

vars == << pc, args, tempExists, tempFiles, outExists, written,
           local_path, images, input_token_count, output_token_count,
           prior_page, aggregated_markdown, idx, awaiting, batchLo, inflight,
           results, output, error, started, finished, produced, reachedTemp >>

---------------------------------------------------------------------------
(* Bounds of the model. *)

MaxPages == 2       \* pages of the larger of the two documents
MaxConcurrency == 2

---------------------------------------------------------------------------
(* Python values.  A text is a sequence of symbols; the Markdown of a page *)
(* is one symbol naming the page image it was read from, so that contents  *)
(* of different pages differ.  A result of process_page is a str or None.  *)

NL == [doc |-> "\n", page |-> 0]

Str(t) == [kind |-> "str", text |-> t]

PyNone == [kind |-> "none", text |-> << >>]

\* bool(v): None and "" are falsy.
Truthy(v) == v.kind = "str" /\ v.text # << >>

\* isinstance(v, str)
IsStr(v) == v.kind = "str"

RECURSIVE Join(_)
\* "\n\n".join(parts), parts a sequence of str values.
Join(parts) ==
    IF parts = << >> THEN << >>
    ELSE IF Len(parts) = 1 THEN parts[1].text
    ELSE parts[1].text \o << NL, NL >> \o Join(Tail(parts))

RECURSIVE SumField(_, _)
\* sum([r[f] for r in rs])
SumField(rs, f) ==
    IF rs = << >> THEN 0 ELSE rs[1][f] + SumField(Tail(rs), f)

---------------------------------------------------------------------------
(* Files.  A file of the working directory is named by the document it     *)
(* belongs to, a page number (0 for the downloaded source) and its         *)
(* extension.                                                              *)

\* file_path values: empty, a local path, a remote URL.
FilePaths == {"", "a.pdf", "http://h/b.pdf"}

DocOf(file_path) == IF file_path = "a.pdf" THEN "a" ELSE "b"

IsRemote(file_path) == file_path = "http://h/b.pdf"

SourceFile(d) == [doc |-> d, page |-> 0, ext |-> ".pdf"]

PageFile(d, p) == [doc |-> d, page |-> p, ext |-> ".png"]

\* The documents: "a" is a local file of MaxPages pages, "b" a remote one
\* of a single page.
Pages(d) == IF d = "a" THEN MaxPages ELSE 1

RECURSIVE Listings(_)
\* The orders in which a directory listing can name the files of `dir`:
\* os.listdir gives the entries "in arbitrary order".
Listings(dir) ==
    IF dir = {} THEN { << >> }
    ELSE UNION { { << f >> \o rest : rest \in Listings(dir \ {f}) } : f \in dir }

RECURSIVE SelectPng(_)
\* [f for f in listing if f.endswith(".png")]
SelectPng(listing) ==
    IF listing = << >> THEN << >>
    ELSE IF listing[1].ext = ".png"
         THEN << listing[1] >> \o SelectPng(Tail(listing))
         ELSE SelectPng(Tail(listing))

\* The symbol that stands for the Markdown read from page image `img`.
Sym(img) == [doc |-> img.doc, page |-> img.page]

---------------------------------------------------------------------------
(* The processor package, modelled from its contracts.                     *)

\* Token counts a completion reports for one page, <<input, output>>: for a
\* page it transcribed, and for a page it returned no text for.
UsageOk == << 2, 1 >>

UsageEmpty == << 1, 0 >>

\* download_file(file_path, temp_dir): None ("") when the source cannot be
\* resolved; otherwise the local path, a remote source being stored in the
\* working directory first.  Each outcome: the path and the directory after.
DownloadOutcomes(file_path, files) ==
    { [path |-> "", files |-> files] }
    \cup
    IF file_path = "" THEN {}
    ELSE { [path |-> file_path,
            files |-> IF IsRemote(file_path)
                      THEN files \cup { SourceFile(DocOf(file_path)) }
                      ELSE files] }

\* convert_pdf_to_images(local_path, temp_dir): one image file per page that
\* could be rendered, written into the working directory.
ConvertedFiles(path, k) == { PageFile(DocOf(path), p) : p \in 1..k }

\* process_page(image, model, temp_directory, input_token_count,
\* output_token_count, prior_page): what it can return.  A completion gives
\* the page's Markdown (possibly empty) and its token counts, added to the
\* counts passed in; a failure of the page is caught and gives no content
\* and no tokens.  The new output is the updated prior page.
ProcessPageReturns(image, itc, otc, prior) ==
    { [kind |-> "ok", result |-> Str(<< Sym(image) >>),
       itc |-> itc + UsageOk[1], otc |-> otc + UsageOk[2],
       prior |-> << Sym(image) >>,
       tin |-> UsageOk[1], tout |-> UsageOk[2]],
      [kind |-> "empty", result |-> Str(<< >>),
       itc |-> itc + UsageEmpty[1], otc |-> otc + UsageEmpty[2],
       prior |-> << >>,
       tin |-> UsageEmpty[1], tout |-> UsageEmpty[2]],
      [kind |-> "failed", result |-> PyNone,
       itc |-> itc, otc |-> otc, prior |-> << >>,
       tin |-> 0, tout |-> 0] }

\* process_pages_in_batches: the indexes of the batch that starts at `lo`.
BatchIndexes(lo, concurrency, n) ==
    { i \in 1..n : lo <= i /\ i < lo + concurrency }

RECURSIVE StartedBatch(_, _, _)
\* The process_page calls of a batch are begun in image order.
StartedBatch(imgs, ixs, prior) ==
    IF ixs = {} THEN << >>
    ELSE LET i == CHOOSE m \in ixs : \A o \in ixs : m <= o
         IN << [image |-> imgs[i], prior |-> prior] >>
            \o StartedBatch(imgs, ixs \ {i}, prior)

---------------------------------------------------------------------------
(* zerox(): the pieces of its body.                                        *)

\* The arguments a call can be made with (model, custom_system_prompt and
\* kwargs only reach the model adapter; temp_dir is the same for all calls).
\* The maintain-format path of lines 101-112 never reads concurrency, so
\* its calls are enumerated with one value of it.
Args ==
    { a \in [ cleanup : BOOLEAN, concurrency : 1..MaxConcurrency,
              file_path : FilePaths, maintain_format : BOOLEAN,
              output_dir : {"", "out"} ] :
        a.maintain_format => a.concurrency = 1 }

NoArgs ==
    [ cleanup |-> TRUE, concurrency |-> 1, file_path |-> "",
      maintain_format |-> FALSE, output_dir |-> "" ]

NoOutput ==
    [ file_name |-> "", input_tokens |-> 0, output_tokens |-> 0,
      pages |-> << >> ]

\* A variant of FilePathGiven: the check of line 65 left out.
FilePathUnchecked(file_path) == TRUE

\* line 65: `if not file_path` is the negation of this.
FilePathGiven(file_path) == file_path # ""

\* lines 81-82: the sanitized base name of the local path.
FileName(path) == DocOf(path)

\* lines 88-92: the images are the .png entries, in listing order.
ImagesOf(listing) == SelectPng(listing)

\* A variant of AppendResult: the result appended without the test of line 111.
AppendAlways(agg, result) == Append(agg, result)

\* lines 111-112: `if result: aggregated_markdown.append(result)`.
AppendResult(agg, result) ==
    IF Truthy(result) THEN Append(agg, result) ELSE agg

\* A variant of PriorAfter: prior_page not rebound by line 103.
PriorNotRebound(ret) == << >>

\* line 103: the prior_page the loop holds after a process_page call.
PriorAfter(ret) == ret.prior

RECURSIVE TruthyResults(_)
\* A variant of StrResults: line 124 filtering as line 111 does.
TruthyResults(rs) ==
    IF rs = << >> THEN << >>
    ELSE IF Truthy(rs[1].result)
         THEN << rs[1].result >> \o TruthyResults(Tail(rs))
         ELSE TruthyResults(Tail(rs))

RECURSIVE StrResults(_)
\* line 124: [result[0] for result in results if isinstance(result[0], str)]
StrResults(rs) ==
    IF rs = << >> THEN << >>
    ELSE IF IsStr(rs[1].result)
         THEN << rs[1].result >> \o StrResults(Tail(rs))
         ELSE StrResults(Tail(rs))

\* A variant of AddInputTokens: line 127 summing result[2].
AddInputTokensColumn2(count, rs) == count + SumField(rs, "otc")

\* line 127: input_token_count += sum([result[1] for result in results])
AddInputTokens(count, rs) == count + SumField(rs, "itc")

\* line 128: output_token_count += sum([result[2] for result in results])
AddOutputTokens(count, rs) == count + SumField(rs, "otc")

\* A variant of ShouldRemove: line 137 without the cleanup flag.
RemoveIfExists(cleanup, exists) == exists

\* line 137: `if cleanup and os.path.exists(temp_directory)`.
ShouldRemove(cleanup, exists) == cleanup /\ exists

\* A variant of FormattedPages: page=i, the 0-based index of enumerate.
FormattedPagesZeroBased(agg) ==
    [ i \in 1..Len(agg) |->
        [ content |-> agg[i].text, page |-> i - 1,
          content_length |-> Len(agg[i].text) ] ]

\* lines 143-146: Page(content, page=i + 1, content_length=len(content))
FormattedPages(agg) ==
    [ i \in 1..Len(agg) |->
        [ content |-> agg[i].text, page |-> (i - 1) + 1,
          content_length |-> Len(agg[i].text) ] ]

\* After the images are listed, or a page is done: the position of the
\* maintain-format loop of lines 102-112.
LoopPc(i, imgs) == IF i > Len(imgs) THEN "persist" ELSE "loop"

---------------------------------------------------------------------------
(* The state machine.                                                      *)

Init ==
    /\ pc = "idle"
    /\ args = NoArgs
    /\ tempExists = FALSE
    /\ tempFiles = {}
    /\ outExists = FALSE
    /\ written = << >>
    /\ local_path = ""
    /\ images = << >>
    /\ input_token_count = 0
    /\ output_token_count = 0
    /\ prior_page = << >>
    /\ aggregated_markdown = << >>
    /\ idx = 1
    /\ awaiting = FALSE
    /\ batchLo = 1
    /\ inflight = {}
    /\ results = << >>
    /\ output = NoOutput
    /\ error = "none"
    /\ started = << >>
    /\ finished = << >>
    /\ produced = {}
    /\ reachedTemp = FALSE

fsVars == << tempExists, tempFiles, outExists >>

pageVars == << input_token_count, output_token_count, prior_page,
               aggregated_markdown, idx, awaiting, batchLo, inflight,
               results, started, finished >>

\* The call ends by raising `e`.
Raise(e) == pc' = "raised" /\ error' = e

\* lines 58-66: a call begins; an empty file_path raises FileUnavailable.
Call(a) ==
    /\ pc = "idle"
    /\ args' = a
    /\ input_token_count' = 0
    /\ output_token_count' = 0
    /\ prior_page' = << >>
    /\ aggregated_markdown' = << >>
    /\ local_path' = ""
    /\ images' = << >>
    /\ idx' = 1
    /\ awaiting' = FALSE
    /\ batchLo' = 1
    /\ inflight' = {}
    /\ results' = << >>
    /\ output' = NoOutput
    /\ written' = << >>
    /\ started' = << >>
    /\ finished' = << >>
    /\ produced' = {}
    /\ reachedTemp' = FALSE
    /\ IF FilePathGiven(a.file_path)
       THEN pc' = "makedirs" /\ error' = "none"
       ELSE Raise("FileUnavailable")
    /\ UNCHANGED fsVars

\* lines 69-74: the output directory, if one is given, and the working
\* temporary directory are made (exist_ok=True).
MakeDirs ==
    /\ pc = "makedirs"
    /\ outExists' = (outExists \/ args.output_dir # "")
    /\ tempExists' = TRUE
    /\ reachedTemp' = TRUE
    /\ pc' = "download"
    /\ UNCHANGED << args, tempFiles, written, local_path, images,
                    output, error, produced, pageVars >>

\* lines 77-82: the source is resolved; no local path raises FileUnavailable.
Download ==
    /\ pc = "download"
    /\ \E d \in DownloadOutcomes(args.file_path, tempFiles) :
          /\ tempFiles' = d.files
          /\ local_path' = d.path
          /\ IF d.path = ""
             THEN Raise("FileUnavailable")
             ELSE pc' = "convert" /\ UNCHANGED error
    /\ UNCHANGED << args, tempExists, outExists, written, images,
                    output, produced, reachedTemp, pageVars >>

\* line 85: the document is rasterized into the working directory; a
\* document none of whose pages renders gives no image.
Convert ==
    /\ pc = "convert"
    /\ \E k \in { 0, Pages(DocOf(local_path)) } :
          /\ produced' = ConvertedFiles(local_path, k)
          /\ tempFiles' = tempFiles \cup ConvertedFiles(local_path, k)
    /\ pc' = "listdir"
    /\ UNCHANGED << args, tempExists, outExists, written, local_path,
                    images, output, error, reachedTemp, pageVars >>

\* line 85: the document cannot be opened or rendered at all.
ConvertFails ==
    /\ pc = "convert"
    /\ Raise("ConvertError")
    /\ UNCHANGED << args, fsVars, written, local_path, images,
                    output, produced, reachedTemp, pageVars >>

\* lines 88-101: the directory is listed and the processing path chosen.
ListImages ==
    /\ pc = "listdir"
    /\ \E listing \in Listings(tempFiles) :
          /\ images' = ImagesOf(listing)
          /\ pc' = IF args.maintain_format
                   THEN LoopPc(1, ImagesOf(listing))
                   ELSE "batches"
    /\ UNCHANGED << args, fsVars, written, local_path, output, error,
                    produced, reachedTemp, pageVars >>

\* What the history keeps of a process_page call that returned `ret`.
Done(image, ret) ==
    [ image |-> image, kind |-> ret.kind, result |-> ret.result,
      tin |-> ret.tin, tout |-> ret.tout, prior |-> ret.prior ]

\* lines 102-110: the loop calls process_page for the next image.
LoopCall ==
    /\ pc = "loop"
    /\ ~awaiting
    /\ awaiting' = TRUE
    /\ started' = Append(started, [image |-> images[idx], prior |-> prior_page])
    /\ UNCHANGED << pc, args, fsVars, written, local_path, images,
                    input_token_count, output_token_count, prior_page,
                    aggregated_markdown, idx, batchLo, inflight, results,
                    output, error, finished, produced, reachedTemp >>

\* lines 103-112: process_page returns; its results replace the locals.
LoopReturn ==
    /\ pc = "loop"
    /\ awaiting
    /\ \E ret \in ProcessPageReturns(images[idx], input_token_count,
                                     output_token_count, prior_page) :
          /\ input_token_count' = ret.itc
          /\ output_token_count' = ret.otc
          /\ prior_page' = PriorAfter(ret)
          /\ aggregated_markdown' = AppendResult(aggregated_markdown, ret.result)
          /\ finished' = Append(finished, Done(images[idx], ret))
    /\ awaiting' = FALSE
    /\ idx' = idx + 1
    /\ pc' = LoopPc(idx + 1, images)
    /\ UNCHANGED << args, fsVars, written, local_path, images,
                    batchLo, inflight, results, output, error, started,
                    produced, reachedTemp >>

\* line 103: process_page raises an error it classifies as fatal.
LoopRaises ==
    /\ pc = "loop"
    /\ awaiting
    /\ awaiting' = FALSE
    /\ Raise("PageError")
    /\ UNCHANGED << args, fsVars, written, local_path, images,
                    input_token_count, output_token_count, prior_page,
                    aggregated_markdown, idx, batchLo, inflight, results,
                    output, started, finished, produced,
                    reachedTemp >>

\* process_pages_in_batches: the next batch of at most `concurrency` pages
\* is begun, every page with the counts and prior page of lines 119-121.
BatchSpawn ==
    /\ pc = "batches"
    /\ inflight = {}
    /\ batchLo <= Len(images)
    /\ LET ixs == BatchIndexes(batchLo, args.concurrency, Len(images))
       IN /\ inflight' = ixs
          /\ started' = started \o StartedBatch(images, ixs, prior_page)
    /\ UNCHANGED << pc, args, fsVars, written, local_path, images,
                    input_token_count, output_token_count, prior_page,
                    aggregated_markdown, idx, awaiting, batchLo, results,
                    output, error, finished, produced, reachedTemp >>

\* process_pages_in_batches: a page of the batch settles, in any order; its
\* result is kept at the page's index.  The batch ends with its last page.
TaskSettles(i) ==
    /\ pc = "batches"
    /\ i \in inflight
    /\ \E ret \in ProcessPageReturns(images[i], input_token_count,
                                     output_token_count, prior_page) :
          /\ results' = [ j \in DOMAIN results \cup {i} |->
                            IF j = i THEN ret ELSE results[j] ]
          /\ finished' = [ j \in DOMAIN finished \cup {i} |->
                             IF j = i THEN Done(images[i], ret) ELSE finished[j] ]
    /\ inflight' = inflight \ {i}
    /\ batchLo' = IF inflight = {i} THEN batchLo + args.concurrency ELSE batchLo
    /\ UNCHANGED << pc, args, fsVars, written, local_path, images,
                    input_token_count, output_token_count, prior_page,
                    aggregated_markdown, idx, awaiting, output, error,
                    started, produced, reachedTemp >>

\* process_pages_in_batches: a page raises a fatal error, which the batch
\* does not catch.
TaskRaises(i) ==
    /\ pc = "batches"
    /\ i \in inflight
    /\ inflight' = {}
    /\ Raise("PageError")
    /\ UNCHANGED << args, fsVars, written, local_path, images,
                    input_token_count, output_token_count, prior_page,
                    aggregated_markdown, idx, awaiting, batchLo, results,
                    output, started, finished, produced,
                    reachedTemp >>

\* lines 114-128: process_pages_in_batches returns the results in image
\* order; the strings are kept and the token counts summed.
BatchesReturn ==
    /\ pc = "batches"
    /\ inflight = {}
    /\ batchLo > Len(images)
    /\ LET rs == [ i \in 1..Len(images) |-> results[i] ]
       IN /\ aggregated_markdown' = StrResults(rs)
          /\ input_token_count' = AddInputTokens(input_token_count, rs)
          /\ output_token_count' = AddOutputTokens(output_token_count, rs)
    /\ pc' = "persist"
    /\ UNCHANGED << args, fsVars, written, local_path, images,
                    prior_page, idx, awaiting, batchLo, inflight, results,
                    output, error, started, finished, produced,
                    reachedTemp >>

\* lines 131-134: with an output directory, the joined Markdown is written.
Persist ==
    /\ pc = "persist"
    /\ written' = IF args.output_dir # ""
                  THEN Join(aggregated_markdown) ELSE written
    /\ pc' = "finish"
    /\ UNCHANGED << args, fsVars, local_path, images, output, error,
                    produced, reachedTemp, pageVars >>

\* lines 133-134: the output file cannot be written.
PersistFails ==
    /\ pc = "persist"
    /\ args.output_dir # ""
    /\ Raise("WriteError")
    /\ UNCHANGED << args, fsVars, written, local_path, images,
                    output, produced, reachedTemp, pageVars >>

\* lines 136-154: the working directory is removed if asked for, and the
\* ZeroxOutput is built and returned.
Finish ==
    /\ pc = "finish"
    /\ IF ShouldRemove(args.cleanup, tempExists)
       THEN tempExists' = FALSE /\ tempFiles' = {}
       ELSE UNCHANGED << tempExists, tempFiles >>
    /\ output' = [ file_name |-> FileName(local_path),
                   input_tokens |-> input_token_count,
                   output_tokens |-> output_token_count,
                   pages |-> FormattedPages(aggregated_markdown) ]
    /\ pc' = "returned"
    /\ UNCHANGED << args, outExists, written, local_path, images,
                    error, produced, reachedTemp, pageVars >>

\* line 138: shutil.rmtree raises.
FinishFails ==
    /\ pc = "finish"
    /\ ShouldRemove(args.cleanup, tempExists)
    /\ Raise("RmtreeError")
    /\ UNCHANGED << args, fsVars, written, local_path, images,
                    output, produced, reachedTemp, pageVars >>

\* The caller has the ZeroxOutput or the exception: the call is over, its
\* locals are gone, and what it left on disk stays.
Release ==
    /\ pc \in {"returned", "raised"}
    /\ pc' = "idle"
    /\ args' = NoArgs
    /\ written' = << >>
    /\ local_path' = ""
    /\ images' = << >>
    /\ input_token_count' = 0
    /\ output_token_count' = 0
    /\ prior_page' = << >>
    /\ aggregated_markdown' = << >>
    /\ idx' = 1
    /\ awaiting' = FALSE
    /\ batchLo' = 1
    /\ inflight' = {}
    /\ results' = << >>
    /\ output' = NoOutput
    /\ error' = "none"
    /\ started' = << >>
    /\ finished' = << >>
    /\ produced' = {}
    /\ reachedTemp' = FALSE
    /\ UNCHANGED fsVars

Next ==
    \/ \E a \in Args : Call(a)
    \/ MakeDirs
    \/ Download
    \/ Convert
    \/ ConvertFails
    \/ ListImages
    \/ LoopCall
    \/ LoopReturn
    \/ LoopRaises
    \/ BatchSpawn
    \/ \E i \in 1..Len(images) : TaskSettles(i)
    \/ \E i \in 1..Len(images) : TaskRaises(i)
    \/ BatchesReturn
    \/ Persist
    \/ PersistFails
    \/ Finish
    \/ FinishFails
    \/ Release

Spec == Init /\ [][Next]_vars

---------------------------------------------------------------------------
(* Properties.                                                             *)

\* The call went through processing and aggregation.
Aggregated == pc \in {"persist", "finish", "returned"}

\* The page results the code keeps: line 111 on the maintain-format path,
\* line 124 on the batched path.
Kept(f) ==
    IF args.maintain_format THEN Truthy(f.result) ELSE IsStr(f.result)

KeptCount == Cardinality({ k \in DOMAIN finished : Kept(finished[k]) })

\* The pages of the output whose content was read from document d.
PagesOfDoc(d) ==
    { i \in 1..Len(output.pages) :
        output.pages[i].content # << >> /\ output.pages[i].content[1].doc = d }

SomeFinished(kind) == \E k \in DOMAIN finished : finished[k].kind = kind

\* C1, as stated: a returned run has as many Page Results as page images
\* were listed, whatever the pages' results.
C1_PagesEqualImages ==
    pc = "returned" => Len(output.pages) = Len(images)

\* C1, amended: a returned run has one Page Result for every page image
\* whose result was kept (a non-empty string with maintain_format, any
\* string without), so at most as many as page images were listed.
C1_PagesEqualKeptResults ==
    pc = "returned" =>
        /\ DOMAIN finished = 1..Len(images)
        /\ Len(output.pages) = KeptCount
        /\ Len(output.pages) <= Len(images)

C1_Witness ==
    /\ pc = "returned"
    /\ ~args.maintain_format
    /\ SomeFinished("empty")
    /\ SomeFinished("failed")
    /\ 0 < Len(output.pages)
    /\ Len(output.pages) < Len(images)

\* C2: in a returned run the contents of the document's pages appear in
\* the returned pages in rasterized page order (page 1, 2, ..., N).
C2_RasterizedPageOrder ==
    pc = "returned" =>
        \A i, j \in PagesOfDoc(DocOf(local_path)) :
            i < j => output.pages[i].content[1].page
                        < output.pages[j].content[1].page

\* C3: a returned run's token totals are the sums of the token counts
\* reported for its pages, 0 for a run without page images.
C3_TokenTotals ==
    pc = "returned" =>
        /\ DOMAIN finished = 1..Len(images)
        /\ output.input_tokens = SumField(finished, "tin")
        /\ output.output_tokens = SumField(finished, "tout")
        /\ images = << >> =>
              output.input_tokens = 0 /\ output.output_tokens = 0

C3_Witness ==
    /\ pc = "returned"
    /\ ~args.maintain_format
    /\ SomeFinished("ok")
    /\ SomeFinished("empty")
    /\ SomeFinished("failed")
    /\ output.input_tokens > output.output_tokens

\* C4: a step that leaves zerox in a call with an empty file_path is the
\* start of that call; it ends with FileUnavailable raised and changes
\* nothing on disk: no directory is made, no source resolved, nothing
\* rasterized and the model called for no page.
C4_EmptyPathRaisesFirst ==
    [][ (pc' # "idle" /\ args'.file_path = "") =>
            /\ pc' = "raised"
            /\ error' = "FileUnavailable"
            /\ UNCHANGED << tempExists, tempFiles, outExists >>
            /\ ~reachedTemp'
            /\ local_path' = ""
            /\ produced' = {}
            /\ started' = << >> ]_vars

C4_Witness ==
    /\ pc = "raised"
    /\ args.file_path = ""
    /\ args.output_dir = "out"
    /\ ~tempExists
    /\ ~outExists

\* C5: the page images handed to processing are all files this call's
\* rasterization wrote.
C5_OnlyThisRunsImages ==
    pc \in {"loop", "batches", "persist", "finish", "returned"} =>
        \A i \in 1..Len(images) : images[i] \in produced

\* C6: with maintain_format the pages are processed one at a time in image
\* order, the first with an empty prior page, every later one with the
\* prior page the call before it returned.
C6_MaintainFormatChain ==
    args.maintain_format =>
        /\ Len(finished) <= Len(started)
        /\ Len(started) <= Len(finished) + 1
        /\ \A k \in 1..Len(started) :
              /\ started[k].image = images[k]
              /\ started[k].prior =
                    IF k = 1 THEN << >> ELSE finished[k - 1].prior
        /\ \A k \in 1..Len(finished) : finished[k].image = images[k]

C6_Witness ==
    /\ args.maintain_format
    /\ Len(started) = 3
    /\ Len(finished) = 2
    /\ started[2].prior # << >>
    /\ started[3].prior # << >>
    /\ started[3].prior # started[2].prior

\* C7: after a returned run the working temporary directory is gone if
\* cleanup is set, and is in place with the page images if it is not.
C7_CleanupOnReturn ==
    pc = "returned" =>
        /\ args.cleanup => ~tempExists /\ tempFiles = {}
        /\ ~args.cleanup => tempExists /\ produced \subseteq tempFiles

C7_Witness ==
    /\ pc = "returned"
    /\ args.cleanup
    /\ ~tempExists
    /\ SomeFinished("failed")
    /\ SomeFinished("ok")

\* C8: once a run is past processing, every page image was processed; a
\* page that failed left no entry and no content in the aggregated
\* Markdown, every page that was transcribed left its content, and what is
\* persisted and returned is that aggregate.
C8_PageFailureIsolated ==
    Aggregated =>
        /\ DOMAIN finished = 1..Len(images)
        /\ \A i \in 1..Len(images) : finished[i].image = images[i]
        /\ Len(aggregated_markdown)
              <= Cardinality({ k \in DOMAIN finished :
                                  finished[k].kind # "failed" })
        /\ \A k \in DOMAIN finished :
              LET here == \E m \in 1..Len(aggregated_markdown) :
                              aggregated_markdown[m]
                                  = Str(<< Sym(finished[k].image) >>)
              IN  here <=> finished[k].kind = "ok"
        /\ (pc \in {"finish", "returned"} /\ args.output_dir # "") =>
              written = Join(aggregated_markdown)
        /\ pc = "returned" =>
              Len(output.pages) = Len(aggregated_markdown)

C8_Witness ==
    /\ pc = "returned"
    /\ args.maintain_format
    /\ args.output_dir # ""
    /\ Len(finished) >= 3
    /\ finished[1].kind = "ok"
    /\ finished[2].kind = "failed"
    /\ finished[3].kind = "ok"
    /\ written = << Sym(finished[1].image), NL, NL, Sym(finished[3].image) >>

\* C9: with cleanup set, a call that raised after the working temporary
\* directory was made has not left that directory on disk.
C9_TempReleasedOnAbort ==
    (pc = "raised" /\ args.cleanup /\ reachedTemp) => ~tempExists

\* C10: in a returned run the Page Result at position i has page number i
\* and the length of its content as content_length.
C10_PageNumbers ==
    pc = "returned" =>
        \A i \in 1..Len(output.pages) :
            /\ output.pages[i].page = i
            /\ output.pages[i].content_length = Len(output.pages[i].content)

C10_Witness ==
    /\ pc = "returned"
    /\ Len(output.pages) < Len(images)
    /\ \E i \in 1..Len(output.pages) :
          /\ output.pages[i].content # << >>
          /\ output.pages[i].content[1].doc = DocOf(local_path)
          /\ output.pages[i].content[1].page # output.pages[i].page

=============================================================================
